---------------------------- MODULE Spec2Model ----------------------------
(***************************************************************************)
(* cargo-bitbake: real_main of src/main.rs as a state machine.             *)
(*                                                                         *)
(* A Rust String is a sequence of byte values (ASCII codes), so that       *)
(* String::cmp (the order Vec::sort uses), str::len, str::split_at,        *)
(* str::split, str::trim and str::replace are computed as the standard     *)
(* library computes them.                                                  *)
(***************************************************************************)
EXTENDS Integers, Sequences, FiniteSets, TLC

\* ------------------------------------------------------------- bounds --
\* longest dependency list handed over by the resolver
MaxDeps == 3
\* longest revision string of the project repository
MaxRevLen == 12
\* most -t template arguments on the command line
MaxTemplates == 2

\* ------------------------------------------------------ string literals --
\* "    crate://"
L_CratePrefix == <<32,32,32,32,99,114,97,116,101,58,47,47>>
\* "    "
L_Indent == <<32,32,32,32>>
\* " \\\n"  (space, backslash, newline)
L_LineCont == <<32,92,10>>
\* "/"
L_Slash == <<47>>
\* "\n"
L_Newline == <<10>>
\* "\""
L_Quote == <<34>>
\* "SRCREV_FORMAT .= \"_"
L_SrcrevFormat == <<83,82,67,82,69,86,95,70,79,82,77,65,84,32,46,61,32,34,95>>
\* "SRCREV_"
L_Srcrev == <<83,82,67,82,69,86,95>>
\* " = \""
L_EqQuote == <<32,61,32,34>>
\* "EXTRA_OECARGO_PATHS += \"${WORKDIR}/"
L_ExtraPaths == <<69,88,84,82,65,95,79,69,67,65,82,71,79,95,80,65,84,72,83,32,43,61,32,34,36,123,87,79,82,75,68,73,82,125,47>>
\* "${AUTOREV}"
L_Autorev == <<36,123,65,85,84,79,82,69,86,125>>
\* "master"
L_Master == <<109,97,115,116,101,114>>
\* "PV_append = \".AUTOINC+"
L_PvAppend == <<80,86,95,97,112,112,101,110,100,32,61,32,34,46,65,85,84,79,73,78,67,43>>
\* " | "
L_Bar == <<32,124,32>>
\* "{" and "}"
L_Open == <<123>>
L_Close == <<125>>

\* const CRATES_IO_URL: &str = "crates.io";
CRATES_IO_URL == <<99,114,97,116,101,115,46,105,111>>

\* ------------------------------------------------------- std: strings --
\* the byte values of ' ', '\t', '\n', '\r' (what str::trim strips here)
IsSpace(c) == c \in {32, 9, 10, 13}

\* String::cmp: byte-wise lexicographic order, a proper prefix is smaller
RECURSIVE StrLe(_, _)
StrLe(a, b) ==
    IF a = <<>> THEN TRUE
    ELSE IF b = <<>> THEN FALSE
    ELSE IF Head(a) < Head(b) THEN TRUE
    ELSE IF Head(a) > Head(b) THEN FALSE
    ELSE StrLe(Tail(a), Tail(b))

\* whether pat occurs in s at position i (1-based)
MatchAt(s, pat, i) ==
    /\ i + Len(pat) - 1 <= Len(s)
    /\ pat # <<>> => s[i] = pat[1]
    /\ SubSeq(s, i, i + Len(pat) - 1) = pat

\* the least of a non-empty set of positions
MinOf(S) == CHOOSE i \in S : \A j \in S : i <= j

\* the positions at which pat occurs in s
Matches(s, pat) == { i \in 1..Len(s) : MatchAt(s, pat, i) }

\* str::contains, for a non-empty pattern
StrContains(s, pat) == Matches(s, pat) # {}

\* str::find: the position of the leftmost match
StrFind(s, pat) == MinOf(Matches(s, pat))

\* str::replace: every non-overlapping match of a non-empty pattern, left
\* to right, in one pass over the ORIGINAL text; the text after a match is
\* searched, the inserted value is not
RECURSIVE StrReplace(_, _, _)
StrReplace(s, pat, val) ==
    IF ~StrContains(s, pat) THEN s
    ELSE LET k == StrFind(s, pat)
         IN  SubSeq(s, 1, k - 1) \o val
             \o StrReplace(SubSeq(s, k + Len(pat), Len(s)), pat, val)

\* str::split(ch): the pieces between the separators, empty pieces kept
RECURSIVE StrSplit(_, _)
StrSplit(s, ch) ==
    LET seps == { i \in 1..Len(s) : s[i] = ch }
    IN  IF seps = {} THEN <<s>>
        ELSE LET k == MinOf(seps)
             IN  <<SubSeq(s, 1, k - 1)>>
                 \o StrSplit(SubSeq(s, k + 1, Len(s)), ch)

\* str::trim: leading and trailing whitespace removed
RECURSIVE TrimStart(_)
TrimStart(s) ==
    IF s # <<>> /\ IsSpace(Head(s)) THEN TrimStart(Tail(s)) ELSE s

RECURSIVE TrimEnd(_)
TrimEnd(s) ==
    IF s # <<>> /\ IsSpace(s[Len(s)])
    THEN TrimEnd(SubSeq(s, 1, Len(s) - 1)) ELSE s

StrTrim(s) == TrimEnd(TrimStart(s))

\* [String]::join(sep) and Itertools::join(sep)
RECURSIVE StrJoin(_, _)
StrJoin(parts, sep) ==
    IF parts = <<>> THEN <<>>
    ELSE IF Len(parts) = 1 THEN parts[1]
    ELSE parts[1] \o sep \o StrJoin(Tail(parts), sep)

\* Vec<String>::sort: insertion into the sorted prefix (the result of a
\* stable sort under a total order is the one sorted permutation)
RECURSIVE SortedInsert(_, _)
SortedInsert(x, sorted) ==
    IF sorted = <<>> THEN <<x>>
    ELSE IF StrLe(x, Head(sorted)) THEN <<x>> \o sorted
    ELSE <<Head(sorted)>> \o SortedInsert(x, Tail(sorted))

RECURSIVE VecSort(_)
VecSort(v) ==
    IF v = <<>> THEN <<>> ELSE SortedInsert(Head(v), VecSort(Tail(v)))

\* ----------------------------------------------------- Option<T> values --
None == [some |-> FALSE, v |-> <<>>]
Some(x) == [some |-> TRUE, v |-> x]

\* -------------------------------------------------- the resolved packages --
\* package names: "app" (the root package), "foo", "bar", "gitdep", "web"
N_app == <<97,112,112>>
N_foo == <<102,111,111>>
N_bar == <<98,97,114>>
N_gitdep == <<103,105,116,100,101,112>>
N_web == <<119,101,98>>
\* versions "0.1.0", "1.2.3", "0.3.2"
V_010 == <<48,46,49,46,48>>
V_123 == <<49,46,50,46,51>>
V_032 == <<48,46,51,46,50>>
\* source urls "file:///w/app", "file:///w/bar", "https://h/gitdep",
\* "https://h/web"
U_app == <<102,105,108,101,58,47,47,47,119,47,97,112,112>>
U_bar == <<102,105,108,101,58,47,47,47,119,47,98,97,114>>
U_gitdep == <<104,116,116,112,115,58,47,47,104,47,103,105,116,100,101,112>>
U_web == <<104,116,116,112,115,58,47,47,104,47,119,101,98>>
\* "https://registry" stands for the crates.io index url
U_registry == <<104,116,116,112,115,58,47,47,114,101,103>>
\* git reference texts "v1.0", "abc123", "dev"
R_v10 == <<118,49,46,48>>
R_abc == <<97,98,99,49,50,51>>
R_dev == <<100,101,118>>

\* cargo::core::source::GitReference, as SourceId::git_reference() hands it
\* out: Some(Tag(s)), Some(Rev(s)), Some(Branch(s)), Some(DefaultBranch), or
\* None (kind "None")
NoReference == [kind |-> "None", s |-> <<>>]

GitReferences ==
    { [kind |-> "Tag", s |-> R_v10],
      [kind |-> "Rev", s |-> R_abc],
      [kind |-> "Branch", s |-> L_Master],
      [kind |-> "Branch", s |-> R_dev],
      [kind |-> "DefaultBranch", s |-> <<>>],
      NoReference }

Pkg(n, ver, k, u, r) ==
    [name |-> n, version |-> ver, kind |-> k, url |-> u, reference |-> r]

\* the packages the resolver may hand over: the root package itself (a path
\* source), a registry package that carries the root's name, a registry
\* package, a path package, a git package under each reference, and a
\* package from another kind of source
Packages ==
    { Pkg(N_app, V_010, "path", U_app, NoReference),
      Pkg(N_app, V_032, "registry", U_registry, NoReference),
      Pkg(N_foo, V_123, "registry", U_registry, NoReference),
      Pkg(N_bar, V_010, "path", U_bar, NoReference),
      Pkg(N_web, V_032, "other", U_web, NoReference) }
    \cup { Pkg(N_gitdep, V_010, "git", U_gitdep, r) : r \in GitReferences }

\* -------------------------------------------------- Source Classifier ----
\* "https://", "git://", ";protocol=https", ";destsuffix="
L_Https == <<104,116,116,112,115,58,47,47>>
L_Git == <<103,105,116,58,47,47>>
L_Protocol == <<59,112,114,111,116,111,99,111,108,61,104,116,116,112,115>>
L_Destsuffix == <<59,100,101,115,116,115,117,102,102,105,120,61>>

\* git::git_to_yocto_git_url(url, Some(name), GitPrefix::default())
GitToYoctoGitUrl(url, name) ==
    (IF MatchAt(url, L_Https, 1)
     THEN L_Git \o SubSeq(url, Len(L_Https) + 1, Len(url)) \o L_Protocol
     ELSE url)
    \o L_Destsuffix \o name

\* format!("    crate://{}/{}/{} \\\n", CRATES_IO_URL, name, version)
CrateUri(pkg) ==
    L_CratePrefix \o CRATES_IO_URL \o L_Slash \o pkg.name \o L_Slash
        \o pkg.version \o L_LineCont

\* format!("    {} \\\n", url)
PlainUri(url) == L_Indent \o url \o L_LineCont

\* format!("SRCREV_FORMAT .= \"_{}\"", name)
SrcrevFormatLine(name) == L_SrcrevFormat \o name \o L_Quote

\* format!("SRCREV_{} = \"{}\"", name, rev)
SrcrevLine(name, rev) == L_Srcrev \o name \o L_EqQuote \o rev \o L_Quote

\* format!("EXTRA_OECARGO_PATHS += \"${{WORKDIR}}/{}\"", name)
ExtraPathsLine(name) == L_ExtraPaths \o name \o L_Quote

\* SrcRev with the branch name taken as it is, "master" included
SrcRevBranchLiteral(r) ==
    CASE r.kind \in {"Tag", "Rev", "Branch"} -> r.s
      [] r.kind = "DefaultBranch" -> L_Autorev

\* the match on the git reference: the text of the revision pin
SrcRev(r) ==
    CASE r.kind \in {"Tag", "Rev"} -> r.s
      [] r.kind = "Branch" -> IF r.s = L_Master THEN L_Autorev ELSE r.s
      [] r.kind = "DefaultBranch" -> L_Autorev

\* Classify without the comparison of the package's name with the root's
ClassifyRootKept(pkg, root) ==
    IF pkg.kind = "registry" THEN
        [uri |-> Some(CrateUri(pkg)), extras |-> <<>>]
    ELSE IF pkg.kind = "path" THEN
        [uri |-> None, extras |-> <<>>]
    ELSE IF pkg.kind = "git" THEN
        IF pkg.reference.kind = "None"
        THEN [uri |-> None, extras |-> <<SrcrevFormatLine(pkg.name)>>]
        ELSE [uri |-> Some(PlainUri(GitToYoctoGitUrl(pkg.url, pkg.name))),
              extras |-> << SrcrevFormatLine(pkg.name),
                            SrcrevLine(pkg.name, SrcRev(pkg.reference)),
                            ExtraPathsLine(pkg.name) >>]
    ELSE
        [uri |-> Some(PlainUri(pkg.url)), extras |-> <<>>]

\* the filter_map closure on one package: what it returns (Option<String>)
\* and what it pushes onto src_uri_extras on the way
Classify(pkg, root) ==
    IF pkg.name = root.name THEN
        [uri |-> None, extras |-> <<>>]
    ELSE IF pkg.kind = "registry" THEN
        [uri |-> Some(CrateUri(pkg)), extras |-> <<>>]
    ELSE IF pkg.kind = "path" THEN
        [uri |-> None, extras |-> <<>>]
    ELSE IF pkg.kind = "git" THEN
        IF pkg.reference.kind = "None"
        THEN \* git_reference()? inside the closure: the closure returns None
             [uri |-> None, extras |-> <<SrcrevFormatLine(pkg.name)>>]
        ELSE [uri |-> Some(PlainUri(GitToYoctoGitUrl(pkg.url, pkg.name))),
              extras |-> << SrcrevFormatLine(pkg.name),
                            SrcrevLine(pkg.name, SrcRev(pkg.reference)),
                            ExtraPathsLine(pkg.name) >>]
    ELSE
        [uri |-> Some(PlainUri(pkg.url)), extras |-> <<>>]

\* ------------------------------------------------ root package metadata --
\* "_"
L_Underscore == <<95>>

\* summary: the trimmed description, or the package name
Summary(md, root) ==
    IF md.description.some THEN StrTrim(md.description.v) ELSE root.name

\* Homepage without the fallback to the repository
HomepageNoFallback(md) ==
    IF md.homepage.some THEN [ok |-> TRUE, v |-> StrTrim(md.homepage.v)]
    ELSE [ok |-> FALSE, v |-> <<>>]

\* homepage: the homepage, else the repository, else an error (the `?`);
\* trimmed
Homepage(md) ==
    IF md.homepage.some THEN [ok |-> TRUE, v |-> StrTrim(md.homepage.v)]
    ELSE IF md.repository.some
         THEN [ok |-> TRUE, v |-> StrTrim(md.repository.v)]
         ELSE [ok |-> FALSE, v |-> <<>>]

\* license::CLOSED_LICENSE: "CLOSED"
CLOSED_LICENSE == <<67,76,79,83,69,68>>

\* license: the license expression, else the license file's path, else
\* CLOSED_LICENSE
LicenseText(md) ==
    IF md.license.some THEN md.license.v
    ELSE IF md.license_file.some THEN md.license_file.v
    ELSE CLOSED_LICENSE

\* what real_main prints while it reads the metadata
MetadataMessages(md) ==
    (IF md.description.some THEN <<>> ELSE <<"NoDescription">>)
    \o (IF md.homepage.some THEN <<>> ELSE <<"NoHomepage">>)
    \o (IF md.homepage.some \/ md.repository.some THEN
            (IF md.license.some THEN <<>>
             ELSE <<"NoLicense">>
                  \o (IF md.license_file.some THEN <<>>
                      ELSE <<"NoLicenseFile", "AssumingClosed">>))
        ELSE <<>>)

\* ---------------------------------------------------- License Resolver ----
\* "file://", "LICENSE", "LICENSE-", ";md5=generateme"
L_FileScheme == <<102,105,108,101,58,47,47>>
L_License == <<76,73,67,69,78,83,69>>
L_LicenseDash == <<76,73,67,69,78,83,69,45>>
L_Md5 == <<59,109,100,53,61,103,101,110,101,114,97,116,101,109,101>>

\* license::file(crate_root, rel_dir, lic, single_license): one directive
\* for one identifier, here the synthetic path taken when no file matches
LicenseFile(rel_dir, lic, single_license) ==
    L_FileScheme \o rel_dir
        \o (IF single_license THEN L_License ELSE L_LicenseDash \o lic)
        \o L_Md5

\* the loop over license.split('/'): one "    <file>" entry per piece
RECURSIVE LicFilesOf(_, _, _)
LicFilesOf(rel_dir, licenses, single_license) ==
    IF licenses = <<>> THEN <<>>
    ELSE <<L_Indent \o LicenseFile(rel_dir, Head(licenses), single_license)>>
         \o LicFilesOf(rel_dir, Tail(licenses), single_license)

LicFiles(rel_dir, lic) ==
    LET licenses == StrSplit(lic, 47)
    IN  LicFilesOf(rel_dir, licenses, Len(licenses) = 1)

RECURSIVE TrimAll(_)
TrimAll(parts) ==
    IF parts = <<>> THEN <<>>
    ELSE <<StrTrim(Head(parts))>> \o TrimAll(Tail(parts))

\* license.split('/').map(|f| f.trim()).join(" | ")
YoctoLicense(lic) == StrJoin(TrimAll(StrSplit(lic, 47)), L_Bar)

\* ------------------------------------------- Revision Pinning Policy ----
\* the length compared against and split at: 10
SrcpvLen == 10

\* Default::default() of git::ProjectRepo
DefaultProjectRepo == [uri |-> <<>>, rev |-> <<>>, tag |-> FALSE]

\* GitSrcpv with the length test written >= instead of >
GitSrcpvAtLeast(repo) ==
    IF repo.tag /\ Len(repo.rev) >= SrcpvLen
    THEN [panic |-> FALSE, v |-> <<>>]
    ELSE IF SrcpvLen > Len(repo.rev)
         THEN [panic |-> TRUE, v |-> <<>>]
         ELSE [panic |-> FALSE,
               v |-> L_PvAppend \o SubSeq(repo.rev, 1, SrcpvLen) \o L_Quote]

\* git_srcpv: "" for a tag, else the directive over rev.split_at(10).0;
\* split_at panics when 10 is past the end of rev
GitSrcpv(repo) ==
    IF repo.tag /\ Len(repo.rev) > SrcpvLen
    THEN [panic |-> FALSE, v |-> <<>>]
    ELSE IF SrcpvLen > Len(repo.rev)
         THEN [panic |-> TRUE, v |-> <<>>]
         ELSE [panic |-> FALSE,
               v |-> L_PvAppend \o SubSeq(repo.rev, 1, SrcpvLen) \o L_Quote]

\* ------------------------------------------------------ Recipe Renderer --
\* the placeholder names, in the order the template! call binds them
F_name == <<110,97,109,101>>
F_version == <<118,101,114,115,105,111,110>>
F_summary == <<115,117,109,109,97,114,121>>
F_homepage == <<104,111,109,101,112,97,103,101>>
F_license == <<108,105,99,101,110,115,101>>
F_lic_files == <<108,105,99,95,102,105,108,101,115>>
F_src_uri == <<115,114,99,95,117,114,105>>
F_src_uri_extras == <<115,114,99,95,117,114,105,95,101,120,116,114,97,115>>
F_project_rel_dir == <<112,114,111,106,101,99,116,95,114,101,108,95,100,105,114>>
F_project_src_uri == <<112,114,111,106,101,99,116,95,115,114,99,95,117,114,105>>
F_project_src_rev == <<112,114,111,106,101,99,116,95,115,114,99,95,114,101,118>>
F_git_srcpv == <<103,105,116,95,115,114,99,112,118>>
F_cargo_bitbake_ver == <<99,97,114,103,111,95,98,105,116,98,97,107,101,95,118,101,114>>

FieldNames ==
    << F_name, F_version, F_summary, F_homepage, F_license, F_lic_files,
       F_src_uri, F_src_uri_extras, F_project_rel_dir, F_project_src_uri,
       F_project_src_rev, F_git_srcpv, F_cargo_bitbake_ver >>

\* concat!("{", stringify!($name), "}")
Placeholder(n) == L_Open \o n \o L_Close

\* template!: one str::replace over the whole text per name, in the order
\* of the bindings; each replacement works on the result of the previous one
RECURSIVE TemplateMacro(_, _)
TemplateMacro(template, fields) ==
    IF fields = <<>> THEN template
    ELSE TemplateMacro(
             StrReplace(template, Placeholder(Head(fields).name),
                        Head(fields).value),
             Tail(fields))

\* write!(file, <format string>, name = .., ..): std::fmt reads the format
\* string once, left to right; at a "{<name>}" it writes the argument of
\* that name; an argument's text is copied, not read as format
RECURSIVE FormatNamed(_, _)
FormatNamed(fmt, fields) ==
    LET opens == { i \in 1..Len(fmt) : fmt[i] = 123 }
    IN  IF opens = {} THEN fmt
        ELSE
          LET o == MinOf(opens)
              closes == { i \in (o + 1)..Len(fmt) : fmt[i] = 125 }
          IN  IF closes = {} THEN fmt
              ELSE
                LET c == MinOf(closes)
                    n == SubSeq(fmt, o + 1, c - 1)
                    named == { f \in 1..Len(fields) : fields[f].name = n }
                IN  IF named = {}
                    THEN SubSeq(fmt, 1, o)
                         \o FormatNamed(SubSeq(fmt, o + 1, Len(fmt)), fields)
                    ELSE SubSeq(fmt, 1, o - 1)
                         \o fields[CHOOSE f \in named : TRUE].value
                         \o FormatNamed(SubSeq(fmt, c + 1, Len(fmt)), fields)

\* the names between "{" and the next "}" in a template text
RECURSIVE PlaceholdersIn(_)
PlaceholdersIn(s) ==
    LET opens == { i \in 1..Len(s) : s[i] = 123 }
    IN  IF opens = {} THEN {}
        ELSE
          LET o == MinOf(opens)
              closes == { i \in (o + 1)..Len(s) : s[i] = 125 }
          IN  IF closes = {} THEN {}
              ELSE LET c == MinOf(closes)
                   IN  {SubSeq(s, o + 1, c - 1)}
                       \cup PlaceholdersIn(SubSeq(s, c + 1, Len(s)))

BoundNames == { FieldNames[i] : i \in 1..Len(FieldNames) }

\* one line "{<name>}\n" per bound name: a template whose placeholders are
\* exactly the bound field set (the shape of bitbake.template)
RECURSIVE LinesOf(_)
LinesOf(names) ==
    IF names = <<>> THEN <<>>
    ELSE Placeholder(Head(names)) \o L_Newline \o LinesOf(Tail(names))

\* include_str!("bitbake.template")
BuiltinTemplate == LinesOf(FieldNames)

\* "{name} {foo}": a template that names a field nothing binds
T_Unbound == <<123,110,97,109,101,125,32,123,102,111,111,125>>

\* file extensions "bb", "inc"
E_bb == <<98,98>>
E_inc == <<105,110,99>>
Exts == {E_bb, E_inc}

\* a -t argument: the extension of its file stem (None when the stem has
\* none), whether the file can be opened and read, and its text
Tpl(e, r, txt) == [ext |-> e, readable |-> r, text |-> txt]

Templates ==
    { Tpl(Some(E_bb), TRUE, BuiltinTemplate),
      Tpl(Some(E_inc), TRUE, T_Unbound),
      Tpl(None, TRUE, BuiltinTemplate),
      Tpl(Some(E_inc), FALSE, <<>>) }

\* env!("CARGO_PKG_VERSION")
CARGO_PKG_VERSION == V_032

\* a file of the working directory: absent, holding what an earlier run
\* left ("old"), created or truncated by this run with no complete recipe
\* in it ("empty"), or holding a recipe written by this run ("recipe")
\* "old"
L_Old == <<111,108,100>>
Absent == [st |-> "absent", data |-> <<>>]
OldFile == [st |-> "old", data |-> L_Old]
EmptyFile == [st |-> "empty", data |-> <<>>]
RecipeFile(txt) == [st |-> "recipe", data |-> txt]

\* ---------------------------------------------------------------- state --
VARIABLES
    \* what real_main is handed: the root package, the resolver's packages,
    \* the root's manifest metadata, the results of md.rel_dir() and of
    \* git::ProjectRepo::new(), and the -t option
    package, resolve, metadata, rel_dir_result, repo_result, templates,
    \* the working directory's recipe files, now and when the run began
    disk, disk0,
    \* real_main's position and locals
    pc, di, src_uris, src_uri_extras, summary, homepage, license, rel_dir,
    lic_files, project_repo, git_srcpv, ti, template,
    \* what was printed, and how the run ended
    stdout, result, error

inputs == <<package, resolve, metadata, rel_dir_result, repo_result,
            templates, disk0>>
classified == <<di, src_uris, src_uri_extras>>
described == <<summary, homepage>>
licensed == <<license, rel_dir, lic_files>>
pinned == <<project_repo, git_srcpv>>
vars == <<inputs, disk, pc, classified, described, licensed, pinned, ti,
          template, stdout, result, error>>

\* ----------------------------------------------------------- the inputs --
\* "An app", "see {homepage}", "https://h/app", "git://h/app"
D_plain == <<65,110,32,97,112,112>>
D_braces == <<115,101,101,32,123,104,111,109,101,112,97,103,101,125>>
H_app == <<104,116,116,112,115,58,47,47,104,47,97,112,112>>
G_app == <<103,105,116,58,47,47,104,47,97,112,112>>
\* "MIT", "MIT/Apache-2.0", " MIT / Apache-2.0 ", "LICENSE", "docs/LICENSE"
X_mit == <<77,73,84>>
X_dual == <<77,73,84,47,65,112,97,99,104,101,45,50,46,48>>
X_spaced == <<32,77,73,84,32,47,32,65,112,97,99,104,101,45,50,46,48,32>>
P_license == <<76,73,67,69,78,83,69>>
P_docs == <<100,111,99,115,47,76,73,67,69,78,83,69>>

RootPackage == [name |-> N_app, version |-> V_010]

\* the lists of distinct packages of at most n entries
RECURSIVE PackageLists(_)
PackageLists(n) ==
    IF n = 0 THEN {<<>>}
    ELSE LET shorter == PackageLists(n - 1)
         IN  shorter \cup
             { Append(l, p) : l \in { s \in shorter : Len(s) = n - 1 },
                              p \in Packages }

DistinctLists(n) ==
    { l \in PackageLists(n) :
        \A i, j \in 1..Len(l) : i # j => l[i] # l[j] }

RECURSIVE TemplateLists(_)
TemplateLists(n) ==
    IF n = 0 THEN {<<>>}
    ELSE LET shorter == TemplateLists(n - 1)
         IN  shorter \cup
             { Append(l, p) : l \in { s \in shorter : Len(s) = n - 1 },
                              p \in Templates }

Metadatas ==
    [ description : {None, Some(D_plain), Some(D_braces)},
      homepage : {None, Some(H_app)},
      repository : {None, Some(G_app)},
      license : {None, Some(X_mit), Some(X_dual), Some(X_spaced)},
      license_file : {None, Some(P_license), Some(P_docs)} ]

\* a revision of n characters: the digits "0123456789" over and over
RevOfLen(n) == [i \in 1..n |-> 48 + ((i - 1) % 10)]

\* Err(_) of git::ProjectRepo::new()
RepoErr == [some |-> FALSE, v |-> DefaultProjectRepo]

RepoResults ==
    {RepoErr} \cup
    { Some([uri |-> G_app, rev |-> RevOfLen(n), tag |-> b]) :
        n \in 0..MaxRevLen, b \in BOOLEAN }

Disks == [Exts -> {Absent, OldFile}]

\* a package with all its metadata, at the root of a workspace whose
\* checkout is at an untagged commit, with one registry dependency
NominalResolve ==
    << Pkg(N_app, V_010, "path", U_app, NoReference),
       Pkg(N_foo, V_123, "registry", U_registry, NoReference) >>
NominalMetadata ==
    [ description |-> Some(D_plain), homepage |-> Some(H_app),
      repository |-> Some(G_app), license |-> Some(X_mit),
      license_file |-> None ]
NominalRepo == Some([uri |-> G_app, rev |-> RevOfLen(MaxRevLen), tag |-> FALSE])
NominalDisk == [e \in Exts |-> Absent]

\* the runs explored: around the nominal run, every dependency list, every
\* metadata, every repository fact, and every -t option with every
\* description and every earlier content of the working directory
InitInputs ==
    /\ package = RootPackage
    /\ \/ /\ resolve \in DistinctLists(MaxDeps)
          /\ metadata = NominalMetadata
          /\ rel_dir_result = Some(<<>>)
          /\ repo_result = NominalRepo
          /\ templates = None
          /\ disk0 = NominalDisk
       \/ /\ resolve = NominalResolve
          /\ metadata \in Metadatas
          /\ rel_dir_result \in {Some(<<>>), None}
          /\ repo_result = NominalRepo
          /\ templates = None
          /\ disk0 = NominalDisk
       \/ /\ resolve = NominalResolve
          /\ metadata = NominalMetadata
          /\ rel_dir_result = Some(<<>>)
          /\ repo_result \in RepoResults
          /\ templates = None
          /\ disk0 = NominalDisk
       \/ /\ resolve = NominalResolve
          /\ metadata \in { m \in Metadatas :
                              /\ m.homepage = NominalMetadata.homepage
                              /\ m.repository = NominalMetadata.repository
                              /\ m.license = NominalMetadata.license
                              /\ m.license_file = NominalMetadata.license_file }
          /\ rel_dir_result = Some(<<>>)
          /\ repo_result = NominalRepo
          /\ templates \in {None} \cup { Some(l) : l \in TemplateLists(MaxTemplates) }
          /\ disk0 \in Disks

Init ==
    /\ InitInputs
    /\ disk = disk0
    /\ pc = "start"
    /\ di = 1
    /\ src_uris = <<>>
    /\ src_uri_extras = <<>>
    /\ summary = <<>>
    /\ homepage = <<>>
    /\ license = <<>>
    /\ rel_dir = <<>>
    /\ lic_files = <<>>
    /\ project_repo = DefaultProjectRepo
    /\ git_srcpv = <<>>
    /\ ti = 0
    /\ template = <<>>
    /\ stdout = <<>>
    /\ result = "running"
    /\ error = "none"

\* the run ends: Ok(()), Err(e) through the `?`s, or a panic
Return ==
    /\ pc' = "done"
    /\ result' = "ok"
    /\ error' = "none"

Fail(e) ==
    /\ pc' = "done"
    /\ result' = "err"
    /\ error' = e

Panic(e) ==
    /\ pc' = "done"
    /\ result' = "panic"
    /\ error' = e

\* --------------------------------------------------------- the actions --
\* PackageInfo::new, md.package(), the underscore notice, md.resolve()
Start ==
    /\ pc = "start"
    /\ stdout' = IF StrContains(package.name, L_Underscore)
                 THEN Append(stdout, "Underscore") ELSE stdout
    /\ \E resolved \in BOOLEAN :
         IF resolved
         THEN pc' = "classify" /\ UNCHANGED <<result, error>>
         ELSE Fail("Resolve")
    /\ UNCHANGED <<inputs, disk, classified, described, licensed, pinned, ti,
                   template>>

\* one turn of the filter_map over the resolved packages
ClassifyStep ==
    /\ pc = "classify"
    /\ di <= Len(resolve)
    /\ LET c == Classify(resolve[di], package)
       IN  /\ src_uris' = IF c.uri.some THEN Append(src_uris, c.uri.v)
                          ELSE src_uris
           /\ src_uri_extras' = src_uri_extras \o c.extras
    /\ di' = di + 1
    /\ UNCHANGED <<inputs, disk, pc, described, licensed, pinned, ti,
                   template, stdout, result, error>>

\* collect, then src_uris.sort()
SortStep ==
    /\ pc = "classify"
    /\ di > Len(resolve)
    /\ src_uris' = VecSort(src_uris)
    /\ pc' = "metadata"
    /\ UNCHANGED <<inputs, disk, di, src_uri_extras, described, licensed,
                   pinned, ti, template, stdout, result, error>>

\* summary, homepage and license out of the manifest metadata
MetadataStep ==
    /\ pc = "metadata"
    /\ stdout' = stdout \o MetadataMessages(metadata)
    /\ summary' = Summary(metadata, package)
    /\ LET h == Homepage(metadata)
       IN  IF h.ok
           THEN /\ homepage' = h.v
                /\ license' = LicenseText(metadata)
                /\ pc' = "licenses"
                /\ UNCHANGED <<result, error>>
           ELSE /\ Fail("NoRepository")
                /\ UNCHANGED <<homepage, license>>
    /\ UNCHANGED <<inputs, disk, classified, rel_dir, lic_files, pinned, ti,
                   template>>

\* md.rel_dir()?, the license files, the license in Yocto format
LicenseStep ==
    /\ pc = "licenses"
    /\ IF rel_dir_result.some
       THEN /\ rel_dir' = rel_dir_result.v
            /\ lic_files' = LicFiles(rel_dir_result.v, license)
            /\ license' = YoctoLicense(license)
            /\ pc' = "repo"
            /\ UNCHANGED <<result, error>>
       ELSE /\ Fail("RelDir")
            /\ UNCHANGED licensed
    /\ UNCHANGED <<inputs, disk, classified, described, pinned, ti, template,
                   stdout>>

\* git::ProjectRepo::new(config).unwrap_or_else(..), then git_srcpv
RepoStep ==
    /\ pc = "repo"
    /\ LET repo == IF repo_result.some THEN repo_result.v
                   ELSE DefaultProjectRepo
           pv == GitSrcpv(repo)
       IN  /\ project_repo' = repo
           /\ stdout' = IF repo_result.some THEN stdout
                        ELSE Append(stdout, "RepoError")
           /\ IF pv.panic
              THEN Panic("split_at") /\ UNCHANGED git_srcpv
              ELSE /\ git_srcpv' = pv.v
                   /\ pc' = "render"
                   /\ UNCHANGED <<result, error>>
    /\ UNCHANGED <<inputs, disk, classified, described, licensed, ti,
                   template>>

\* the bindings of the template! and write! calls
Fields ==
    << [name |-> F_name, value |-> package.name],
       [name |-> F_version, value |-> package.version],
       [name |-> F_summary, value |-> summary],
       [name |-> F_homepage, value |-> homepage],
       [name |-> F_license, value |-> license],
       [name |-> F_lic_files, value |-> StrJoin(lic_files, <<>>)],
       [name |-> F_src_uri, value |-> StrJoin(src_uris, <<>>)],
       [name |-> F_src_uri_extras, value |-> StrJoin(src_uri_extras, L_Newline)],
       [name |-> F_project_rel_dir, value |-> rel_dir],
       [name |-> F_project_src_uri, value |-> project_repo.uri],
       [name |-> F_project_src_rev, value |-> project_repo.rev],
       [name |-> F_git_srcpv, value |-> git_srcpv],
       [name |-> F_cargo_bitbake_ver, value |-> CARGO_PKG_VERSION] >>

\* one turn of the loop over the -t templates: the extension of the file
\* stem, the template read, the recipe file opened (created or truncated),
\* the template filled, the recipe written
TemplateStep ==
    /\ pc = "render"
    /\ templates.some
    /\ ti < Len(templates.v)
    /\ ti' = ti + 1
    /\ LET tp == templates.v[ti + 1]
       IN  IF ~tp.ext.some
           THEN /\ Panic("extension")
                /\ UNCHANGED <<disk, template, stdout>>
           ELSE IF ~tp.readable
           THEN /\ Panic("open_template")
                /\ UNCHANGED <<disk, template, stdout>>
           ELSE \E opened, written \in BOOLEAN :
                  IF ~opened
                  THEN /\ Fail("OpenRecipe")
                       /\ template' = tp.text
                       /\ UNCHANGED <<disk, stdout>>
                  ELSE /\ template' = TemplateMacro(tp.text, Fields)
                       /\ stdout' = stdout \o <<"Template", "Wrote">>
                       /\ IF written
                          THEN /\ disk' = [disk EXCEPT
                                             ![tp.ext.v] = RecipeFile(template')]
                               /\ UNCHANGED <<pc, result, error>>
                          ELSE /\ disk' = [disk EXCEPT ![tp.ext.v] = EmptyFile]
                               /\ Fail("WriteRecipe")
    /\ UNCHANGED <<inputs, classified, described, licensed, pinned>>

\* the loop is over: Ok(())
TemplatesDone ==
    /\ pc = "render"
    /\ templates.some
    /\ ti = Len(templates.v)
    /\ Return
    /\ UNCHANGED <<inputs, disk, classified, described, licensed, pinned, ti,
                   template, stdout>>

\* no -t: <name>_<version>.bb opened (created or truncated) and the
\* built-in template written into it
DefaultStep ==
    /\ pc = "render"
    /\ ~templates.some
    /\ \E opened, written \in BOOLEAN :
         IF ~opened
         THEN /\ Fail("OpenRecipe")
              /\ UNCHANGED <<disk, stdout>>
         ELSE IF ~written
         THEN /\ disk' = [disk EXCEPT ![E_bb] = EmptyFile]
              /\ Fail("WriteRecipe")
              /\ UNCHANGED stdout
         ELSE /\ disk' = [disk EXCEPT
                            ![E_bb] = RecipeFile(FormatNamed(BuiltinTemplate, Fields))]
              /\ stdout' = Append(stdout, "Wrote")
              /\ Return
    /\ UNCHANGED <<inputs, classified, described, licensed, pinned, ti,
                   template>>

Next ==
    \/ Start
    \/ ClassifyStep
    \/ SortStep
    \/ MetadataStep
    \/ LicenseStep
    \/ RepoStep
    \/ TemplateStep
    \/ TemplatesDone
    \/ DefaultStep

Spec == Init /\ [][Next]_vars

\* ------------------------------------------------------------ claims ----
\* how far real_main has come
Sorted == pc \notin {"start", "classify"} /\ error # "Resolve"
MetadataRead == Sorted /\ pc # "metadata"
LicensesResolved ==
    MetadataRead /\ pc # "licenses" /\ error \notin {"NoRepository", "RelDir"}
RepoInspected ==
    LicensesResolved /\ pc # "repo"

Entries == { src_uris[k] : k \in 1..Len(src_uris) }
Extras == { src_uri_extras[k] : k \in 1..Len(src_uri_extras) }

\* every directive text a branch of the classifier builds for a package
EntriesFor(p) ==
    { CrateUri(p), PlainUri(p.url), PlainUri(GitToYoctoGitUrl(p.url, p.name)) }

\* C1: once src_uris is sorted, it holds no entry for a package that carries
\* the root package's name, no entry for a path package, and its entries are
\* in non-decreasing lexicographic order.
C1_UrisExcludeRootAndPathAndAreSorted ==
    Sorted =>
        /\ \A i \in 1..Len(resolve) :
             (resolve[i].name = package.name \/ resolve[i].kind = "path")
                 => EntriesFor(resolve[i]) \cap Entries = {}
        /\ \A i, j \in 1..Len(src_uris) :
             i < j => StrLe(src_uris[i], src_uris[j])

\* a run over a package from another source, a registry package and a
\* registry package that carries the root's name, in this order: the sort
\* has put the crate:// entry first and the root's name has no entry
C1_Witness ==
    /\ pc = "metadata"
    /\ resolve = << Pkg(N_web, V_032, "other", U_web, NoReference),
                    Pkg(N_foo, V_123, "registry", U_registry, NoReference),
                    Pkg(N_app, V_032, "registry", U_registry, NoReference) >>
    /\ Len(src_uris) = 2
    /\ src_uris[2] = PlainUri(U_web)

\* the three lines the classifier adds for a git package, with this pin
Pinned(n, rev) ==
    \E k \in 1..(Len(src_uri_extras) - 2) :
        /\ src_uri_extras[k] = SrcrevFormatLine(n)
        /\ src_uri_extras[k + 1] = SrcrevLine(n, rev)
        /\ src_uri_extras[k + 2] = ExtraPathsLine(n)

\* C2: the revision pin of every classified git package is the text of its
\* tag or revision, ${AUTOREV} for the branch "master" (and not "master"),
\* the branch name for any other branch, ${AUTOREV} for the default branch.
C2_RevisionPinFollowsReference ==
    \A i \in 1..(di - 1) :
        LET p == resolve[i]
            r == p.reference
        IN  (p.kind = "git" /\ p.name # package.name /\ r.kind # "None") =>
                /\ r.kind \in {"Tag", "Rev"} => Pinned(p.name, r.s)
                /\ (r.kind = "Branch" /\ r.s = L_Master) =>
                       /\ Pinned(p.name, L_Autorev)
                       /\ SrcrevLine(p.name, L_Master) \notin Extras
                /\ (r.kind = "Branch" /\ r.s # L_Master) => Pinned(p.name, r.s)
                /\ r.kind = "DefaultBranch" => Pinned(p.name, L_Autorev)

\* a git package on the branch "master" and one on a tag have been
\* classified
C2_Witness ==
    /\ \E i \in 1..(di - 1) :
         /\ resolve[i].kind = "git"
         /\ resolve[i].reference = [kind |-> "Branch", s |-> L_Master]
    /\ \E i \in 1..(di - 1) :
         /\ resolve[i].kind = "git"
         /\ resolve[i].reference = [kind |-> "Tag", s |-> R_v10]
    /\ SrcrevLine(N_gitdep, L_Autorev) \in Extras
    /\ SrcrevLine(N_gitdep, R_v10) \in Extras

\* the directive over the first 10 characters of rev, when rev has them
SuffixOf(rev) == L_PvAppend \o SubSeq(rev, 1, SrcpvLen) \o L_Quote

C4_ShortRevisionIsAnError ==
    (RepoInspected /\ Len(project_repo.rev) < SrcpvLen) =>
        /\ result = "err"
        /\ git_srcpv = <<>>

\* the turns of the template loop that got as far as filling the template
Filled(i) ==
    /\ templates.some
    /\ i \in 1..ti
    /\ templates.v[i].ext.some
    /\ templates.v[i].readable
    /\ (i = ti => error # "OpenRecipe")

Unbound(txt) == PlaceholdersIn(txt) \ BoundNames # {}

\* C5: a template with a placeholder that no field binds is rejected when
\* it is rendered: once the loop has taken such a template the run has
\* failed, and no recipe has been written out of it.
C5_UnboundPlaceholderIsRejected ==
    templates.some =>
        \A i \in 1..ti :
            ( /\ templates.v[i].ext.some
              /\ templates.v[i].readable
              /\ Unbound(templates.v[i].text) ) =>
                /\ i = ti
                /\ result = "err"
                /\ disk[templates.v[i].ext.v].st # "recipe"

\* C6: after a run that ended in a fatal error the working directory holds
\* no recipe file that is new, truncated or partial.
C6_NoFileLeftByAFailedRun ==
    result \in {"err", "panic"} => disk = disk0

Identifiers(expr) == Cardinality({ k \in 1..Len(expr) : expr[k] = 47 }) + 1

\* C8: there are as many license-file entries as identifiers in the license
\* expression, and exactly one when the expression is absent, whether the
\* license file's path or the closed-source identifier stands in for it.
C8_OneEntryPerIdentifier ==
    (LicensesResolved /\ pc # "licenses") =>
        IF metadata.license.some
        THEN Len(lic_files) = Identifiers(metadata.license.v)
        ELSE Len(lic_files) = 1

\* C9 as stated: no combination of absent metadata makes real_main return
\* an error.
C9_MetadataGapIsNeverFatal ==
    MetadataRead => error # "NoRepository"

Printed(m) == \E k \in 1..Len(stdout) : stdout[k] = m

\* C9: an absent description, license or license file, and an absent
\* homepage beside a repository, are made up for by the fallback with a
\* message, and the run goes on; an absent homepage with an absent
\* repository, and nothing else in the metadata, makes real_main return an
\* error.
C9_MetadataGapFallbacks ==
    MetadataRead =>
        LET md == metadata
            fatal == ~md.homepage.some /\ ~md.repository.some
        IN  /\ (error = "NoRepository") <=> fatal
            /\ fatal => result = "err" /\ pc = "done"
            /\ ~md.description.some =>
                   summary = package.name /\ Printed("NoDescription")
            /\ ~md.homepage.some => Printed("NoHomepage")
            /\ (~fatal /\ ~md.homepage.some) => homepage = md.repository.v
            /\ (~fatal /\ ~md.license.some) => Printed("NoLicense")
            /\ (~fatal /\ ~md.license.some /\ ~md.license_file.some) =>
                   Printed("NoLicenseFile") /\ Printed("AssumingClosed")
            /\ (~fatal /\ pc = "licenses") =>
                   license = IF md.license.some THEN md.license.v
                             ELSE IF md.license_file.some
                                  THEN md.license_file.v
                                  ELSE CLOSED_LICENSE

\* nothing but the repository is set, and the run has reached the rendering
C9_Witness ==
    /\ pc = "render"
    /\ result = "running"
    /\ ~metadata.description.some
    /\ ~metadata.homepage.some
    /\ metadata.repository.some
    /\ ~metadata.license.some
    /\ ~metadata.license_file.some
    /\ homepage = G_app

\* C10: a template whose placeholders are exactly the bound names is written
\* out with every field's value unchanged at its placeholder: text that a
\* value brought in is not substituted again.
C10_ValuesAreNotSubstitutedAgain ==
    \A i \in 1..ti :
        ( /\ Filled(i)
          /\ i = ti
          /\ result = "running"
          /\ PlaceholdersIn(templates.v[i].text) = BoundNames ) =>
            /\ template = FormatNamed(templates.v[i].text, Fields)
            /\ disk[templates.v[i].ext.v] = RecipeFile(template)

=============================================================================
